---- MODULE Spec2Model ----
(***************************************************************************)
(* Value detection and lay sizing for the betting-research dashboard:      *)
(* the snapshot route (opening designation), the opening lookup, the       *)
(* compression classifier, the probability model, the Kelly lay engine     *)
(* and the per-runner decision.                                            *)
(*                                                                         *)
(* Numbers: a JavaScript number is modelled as an exact rational <<n, d>>  *)
(* with d > 0 in lowest terms (Rat).  Prices on the wire and in the        *)
(* odds_snapshots table are integers in hundredths (350 is 3.50).          *)
(* null is the empty tuple.                                                *)
(***************************************************************************)
EXTENDS Integers, Sequences, FiniteSets, TLC

VARIABLES db, clock, cycles, pc, events, selectedAt, existingOpenings,
          snapshotStatus, openingResult, races, arg, res,
          userSettings, localStorage

vars == <<db, clock, cycles, pc, events, selectedAt, existingOpenings,
          snapshotStatus, openingResult, races, arg, res,
          userSettings, localStorage>>

Null == <<>>

(***************************************************************************)
(* Exact rational arithmetic                                               *)
(***************************************************************************)
Abs(x) == IF x < 0 THEN -x ELSE x

RECURSIVE GCD(_, _)
GCD(a, b) == IF b = 0 THEN a ELSE GCD(b, a % b)

Rat(n, d) ==
  LET g == GCD(Abs(n), Abs(d))
      s == IF d < 0 THEN -1 ELSE 1
  IN  <<(s * n) \div g, (s * d) \div g>>

Int2R(n) == <<n, 1>>
Zero == <<0, 1>>
One == <<1, 1>>
\* the operations divide by common factors before they multiply, so that the
\* intermediate products stay small
RAdd(a, b) ==
  LET g == GCD(a[2], b[2])
  IN  Rat(a[1] * (b[2] \div g) + b[1] * (a[2] \div g), (a[2] \div g) * b[2])
RSub(a, b) == RAdd(a, <<-b[1], b[2]>>)
RMul(a, b) ==
  LET g1 == GCD(Abs(a[1]), b[2])
      g2 == GCD(Abs(b[1]), a[2])
  IN  <<(a[1] \div g1) * (b[1] \div g2), (a[2] \div g2) * (b[2] \div g1)>>
RDiv(a, b) == RMul(a, IF b[1] < 0 THEN <<-b[2], -b[1]>> ELSE <<b[2], b[1]>>)
RLt(a, b) ==
  LET g == GCD(a[2], b[2])
  IN  a[1] * (b[2] \div g) < b[1] * (a[2] \div g)
RLe(a, b) ==
  LET g == GCD(a[2], b[2])
  IN  a[1] * (b[2] \div g) <= b[1] * (a[2] \div g)
RGt(a, b) == RLt(b, a)
RGe(a, b) == RLe(b, a)
RMax(a, b) == IF RLt(a, b) THEN b ELSE a
RMin(a, b) == IF RLt(b, a) THEN b ELSE a

RECURSIVE RPow(_, _)
RPow(x, k) == IF k = 0 THEN One ELSE RMul(x, RPow(x, k - 1))

\* Math.round: the nearest integer, halves towards +infinity
MathRound(a) == (2 * a[1] + a[2]) \div (2 * a[2])

\* a price in hundredths as a number
Price(p) == Rat(p, 100)

(***************************************************************************)
(* lib/calculations.ts                                                     *)
(***************************************************************************)
impliedProbability(decimalOdds) ==
  IF RLe(decimalOdds, Zero) THEN Zero ELSE RDiv(One, decimalOdds)

priceCompression(initialOdds, currentOdds) ==
  IF RLe(initialOdds, Zero) THEN Zero
  ELSE RMul(RDiv(RSub(initialOdds, currentOdds), initialOdds), Int2R(100))

valueSignalNoStrong(compression, thresholds) ==
  IF RGe(compression, thresholds.premium) THEN "premium"
  ELSE IF RGe(compression, thresholds.conservative) THEN "conservative"
  ELSE "none"

valueSignal(compression, thresholds) ==
  IF RGe(compression, thresholds.premium) THEN "premium"
  ELSE IF RGe(compression, thresholds.strong) THEN "strong"
  ELSE IF RGe(compression, thresholds.conservative) THEN "conservative"
  ELSE "none"

(***************************************************************************)
(* lib/lay-engine.ts                                                       *)
(***************************************************************************)
round2(n) == Rat(MathRound(RMul(n, Int2R(100))), 100)
round4(n) == Rat(MathRound(RMul(n, Int2R(10000))), 10000)

\* lib/calculations.ts, the calculator's Kelly: the sized return of kellyLayStake,
\* from the stake bankroll * adjustedFraction and the liability that stake gives
kellyLayStakeSized(layOddsMinusOne, kellyFraction, layStake, liability, maxLiability) ==
  IF RGt(liability, maxLiability)
  THEN [layStake |-> round2(RDiv(maxLiability, layOddsMinusOne)),
        liability |-> round2(maxLiability),
        profitIfLoses |-> round2(RDiv(maxLiability, layOddsMinusOne)),
        lossIfWins |-> round2(maxLiability),
        kellyFraction |-> round4(kellyFraction),
        cappedByMaxLiability |-> TRUE]
  ELSE [layStake |-> round2(layStake), liability |-> round2(liability),
        profitIfLoses |-> round2(layStake), lossIfWins |-> round2(liability),
        kellyFraction |-> round4(kellyFraction),
        cappedByMaxLiability |-> FALSE]

\* kellyFraction = (probLose * layOddsMinusOne - probWin) / layOddsMinusOne
kellyLayStakeFraction(params) ==
  RDiv(RSub(RMul(RSub(One, params.trueProb), RSub(params.currentLayOdds, One)),
            params.trueProb),
       RSub(params.currentLayOdds, One))

kellyLayStake(params) ==
  IF RLe(RSub(params.currentLayOdds, One), Zero)
  THEN [layStake |-> Zero, liability |-> Zero, profitIfLoses |-> Zero,
        lossIfWins |-> Zero, kellyFraction |-> Zero,
        cappedByMaxLiability |-> FALSE]
  ELSE IF RLe(kellyLayStakeFraction(params), Zero)
  THEN [layStake |-> Zero, liability |-> Zero, profitIfLoses |-> Zero,
        lossIfWins |-> Zero, kellyFraction |-> kellyLayStakeFraction(params),
        cappedByMaxLiability |-> FALSE]
  ELSE kellyLayStakeSized(
         RSub(params.currentLayOdds, One),
         kellyLayStakeFraction(params),
         RMul(params.bankroll,
              RMul(kellyLayStakeFraction(params), params.kellyMultiplier)),
         RMul(RMul(params.bankroll,
                   RMul(kellyLayStakeFraction(params), params.kellyMultiplier)),
              RSub(params.currentLayOdds, One)),
         RMul(params.bankroll, RDiv(params.maxLiabilityPct, Int2R(100))))

\* params.beta is a natural number here (Math.pow with an integer exponent)
modelProbabilityNoMinusOne(decimalOdds, params) ==
  IF RLe(decimalOdds, One) THEN One
  ELSE RDiv(One, RAdd(One, RMul(params.alpha, RPow(decimalOdds, params.beta))))

modelProbability(decimalOdds, params) ==
  IF RLe(decimalOdds, One) THEN One
  ELSE LET x == RSub(decimalOdds, One)
       IN  RDiv(One, RAdd(One, RMul(params.alpha, RPow(x, params.beta))))

layLiability(stake, layOdds) == RMul(stake, RSub(layOdds, One))
profitIfLose(stake, commission) == RMul(stake, RSub(One, commission))
\* the loss taken as the whole payout, stake included
lossIfWinGross(stake, layOdds) == RMul(stake, layOdds)

lossIfWin(stake, layOdds) == layLiability(stake, layOdds)

layEV(params) ==
  LET pLose == RSub(One, params.pWin)
      L == layLiability(params.stake, params.layOdds)
  IN  RSub(RMul(RMul(pLose, params.stake), RSub(One, params.commission)),
           RMul(params.pWin, L))

marketImpliedProb(decimalOdds) ==
  IF RLe(decimalOdds, Zero) THEN Zero ELSE RDiv(One, decimalOdds)

\* the full-Kelly fraction f* (kellyLay's local kellyFraction, unrounded)
kellyFractionRawBackFormula(p) ==
  LET oddsMinusOne == RSub(p.layOdds, One)
  IN  IF RGt(oddsMinusOne, Zero)
      THEN RDiv(RSub(RMul(RSub(One, p.pWin), oddsMinusOne), p.pWin), oddsMinusOne)
      ELSE Zero

\* the full Kelly fraction with the commission left out of the payoff
kellyFractionRawNoCommission(p) ==
  IF RGt(RSub(p.layOdds, One), Zero)
  THEN RSub(RSub(One, p.pWin), RMul(p.pWin, RSub(p.layOdds, One)))
  ELSE Zero

kellyFractionRaw(p) ==
  LET pLose == RSub(One, p.pWin)
      oddsMinusOne == RSub(p.layOdds, One)
      r == IF RGt(oddsMinusOne, Zero)
           THEN RDiv(RSub(One, p.commission), oddsMinusOne) ELSE Zero
  IN  IF RGt(r, Zero)
      THEN RSub(pLose, RDiv(RMul(p.pWin, oddsMinusOne), RSub(One, p.commission)))
      ELSE Zero

\* kellyLay's unrounded locals, step by step; each step hands the values it
\* computed to the next one
\* the no-bet return of kellyLay
kellyNoBet(kellyFraction, r) ==
  [bet |-> FALSE, kellyFraction |-> kellyFraction, r |-> r,
   adjustedF |-> Zero, stake |-> Zero, liab |-> Zero, maxLiab |-> Zero,
   uncappedLiab |-> Zero,
   profit |-> Zero, loss |-> Zero, ev |-> Zero, evPctBankroll |-> Zero,
   evPerLiability |-> Zero, cappedByMaxLiability |-> FALSE,
   belowMinStake |-> FALSE]

\* the payoffs step with the expected value taken without the probabilities
kellyPayoffsNoProb(p, k, profit, loss, ev) ==
  [k EXCEPT !.profit = profit, !.loss = loss, !.ev = RSub(profit, loss),
            !.evPctBankroll = IF RGt(p.bankroll, Zero)
                              THEN RMul(RDiv(RSub(profit, loss), p.bankroll),
                                        Int2R(100))
                              ELSE Zero,
            !.evPerLiability = IF RGt(k.liab, Zero)
                               THEN RDiv(RSub(profit, loss), k.liab) ELSE Zero]

\* payoffs and expected value of the sized bet
kellyPayoffs(p, k, profit, loss, ev) ==
  [k EXCEPT !.profit = profit, !.loss = loss, !.ev = ev,
            !.evPctBankroll = IF RGt(p.bankroll, Zero)
                              THEN RMul(RDiv(ev, p.bankroll), Int2R(100)) ELSE Zero,
            !.evPerLiability = IF RGt(k.liab, Zero) THEN RDiv(ev, k.liab) ELSE Zero]

\* the stake step with a stake under the minimum raised to the minimum
kellyStakeRaised(p, k, stake) ==
  kellyPayoffs(p, [k EXCEPT !.stake = IF RLt(stake, p.minStake) /\ RGt(stake, Zero)
                                      THEN p.minStake ELSE stake,
                            !.belowMinStake = FALSE],
               profitIfLose(RMax(stake, p.minStake), p.commission),
               lossIfWin(RMax(stake, p.minStake), p.layOdds),
               RSub(RMul(RSub(One, p.pWin),
                         profitIfLose(RMax(stake, p.minStake), p.commission)),
                    RMul(p.pWin, lossIfWin(RMax(stake, p.minStake), p.layOdds))))

\* stake from liability, the minimum stake flag, then the payoffs
kellyStake(p, k, stake) ==
  kellyPayoffs(p, [k EXCEPT !.stake = stake,
                            !.belowMinStake = RLt(stake, p.minStake)
                                              /\ RGt(stake, Zero)],
               profitIfLose(stake, p.commission),
               lossIfWin(stake, p.layOdds),
               RSub(RMul(RSub(One, p.pWin), profitIfLose(stake, p.commission)),
                    RMul(p.pWin, lossIfWin(stake, p.layOdds))))

\* the max-liability step with the flag set but the liability not clamped
kellyCapNoClamp(p, k, oddsMinusOne, liab, maxLiab) ==
  kellyStake(p, [k EXCEPT !.liab = liab, !.maxLiab = maxLiab,
                          !.uncappedLiab = liab,
                          !.cappedByMaxLiability = RGt(liab, maxLiab)],
             RDiv(liab, oddsMinusOne))

\* the max-liability cap
kellyCap(p, k, oddsMinusOne, liab, maxLiab) ==
  IF RGt(liab, maxLiab)
  THEN kellyStake(p, [k EXCEPT !.liab = maxLiab, !.maxLiab = maxLiab,
                               !.uncappedLiab = liab,
                               !.cappedByMaxLiability = TRUE],
                  RDiv(maxLiab, oddsMinusOne))
  ELSE kellyStake(p, [k EXCEPT !.liab = liab, !.maxLiab = maxLiab,
                               !.uncappedLiab = liab,
                               !.cappedByMaxLiability = FALSE],
                  RDiv(liab, oddsMinusOne))

\* the Kelly multiplier and the liability it gives
kellyAdjust(p, k, oddsMinusOne, adjustedF) ==
  kellyCap(p, [k EXCEPT !.bet = TRUE, !.adjustedF = adjustedF], oddsMinusOne,
           RMul(adjustedF, p.bankroll),
           RMul(p.bankroll, RDiv(p.maxLiabilityPct, Int2R(100))))

\* the decision of kellyLay with the multiplier applied without the cap at 1
kellyDecideLeveraged(p, oddsMinusOne, r, kellyFraction) ==
  IF RLe(kellyFraction, Zero) \/ RLe(oddsMinusOne, Zero) \/ RLe(p.bankroll, Zero)
  THEN kellyNoBet(kellyFraction, r)
  ELSE kellyAdjust(p, kellyNoBet(kellyFraction, r), oddsMinusOne,
                   RMul(kellyFraction, p.kellyMultiplier))

\* the decision of kellyLay sizing a bet on the size of the fraction, whatever its sign
kellyDecideAnySign(p, oddsMinusOne, r, kellyFraction) ==
  IF kellyFraction = Zero \/ RLe(oddsMinusOne, Zero) \/ RLe(p.bankroll, Zero)
  THEN kellyNoBet(kellyFraction, r)
  ELSE kellyAdjust(p, kellyNoBet(kellyFraction, r), oddsMinusOne,
                   RMin(RMul(RMax(kellyFraction, RSub(Zero, kellyFraction)),
                             p.kellyMultiplier), One))

kellyDecide(p, oddsMinusOne, r, kellyFraction) ==
  IF RLe(kellyFraction, Zero) \/ RLe(oddsMinusOne, Zero) \/ RLe(p.bankroll, Zero)
  THEN kellyNoBet(kellyFraction, r)
  ELSE kellyAdjust(p, kellyNoBet(kellyFraction, r), oddsMinusOne,
                   RMin(RMul(kellyFraction, p.kellyMultiplier), One))

\* whether kellyLay bets, and its unrounded stake, liab, profit, loss, ev
kellyLayRaw(p) ==
  kellyDecide(p, RSub(p.layOdds, One),
              IF RGt(RSub(p.layOdds, One), Zero)
              THEN RDiv(RSub(One, p.commission), RSub(p.layOdds, One)) ELSE Zero,
              kellyFractionRaw(p))

\* the rounding of kellyLay without the Math.max of the no-bet return
kellyRoundedNoMax(k) ==
  IF ~k.bet
  THEN [kellyFraction |-> k.kellyFraction,
        returnPerLiability |-> k.r,
        layStake |-> Zero, liability |-> Zero, profitIfLoses |-> Zero,
        lossIfWins |-> Zero, ev |-> Zero, evPctBankroll |-> Zero,
        evPerLiability |-> Zero, cappedByMaxLiability |-> FALSE,
        belowMinStake |-> FALSE]
  ELSE [kellyFraction |-> round4(k.kellyFraction),
        returnPerLiability |-> round4(k.r),
        layStake |-> round2(k.stake), liability |-> round2(k.liab),
        profitIfLoses |-> round2(k.profit), lossIfWins |-> round2(k.loss),
        ev |-> round2(k.ev), evPctBankroll |-> round4(k.evPctBankroll),
        evPerLiability |-> round4(k.evPerLiability),
        cappedByMaxLiability |-> k.cappedByMaxLiability,
        belowMinStake |-> k.belowMinStake]

\* the rounding of the FullKellyResult kellyLay returns
kellyRounded(k) ==
  IF ~k.bet
  THEN [kellyFraction |-> RMax(k.kellyFraction, Zero),
        returnPerLiability |-> k.r,
        layStake |-> Zero, liability |-> Zero, profitIfLoses |-> Zero,
        lossIfWins |-> Zero, ev |-> Zero, evPctBankroll |-> Zero,
        evPerLiability |-> Zero, cappedByMaxLiability |-> FALSE,
        belowMinStake |-> FALSE]
  ELSE [kellyFraction |-> round4(k.kellyFraction),
        returnPerLiability |-> round4(k.r),
        layStake |-> round2(k.stake), liability |-> round2(k.liab),
        profitIfLoses |-> round2(k.profit), lossIfWins |-> round2(k.loss),
        ev |-> round2(k.ev), evPctBankroll |-> round4(k.evPctBankroll),
        evPerLiability |-> round4(k.evPerLiability),
        cappedByMaxLiability |-> k.cappedByMaxLiability,
        belowMinStake |-> k.belowMinStake]

\* the FullKellyResult kellyLay returns
kellyLay(p) == kellyRounded(kellyLayRaw(p))

breakEvenProb(layOdds, commission) ==
  IF RLe(layOdds, One) THEN One
  ELSE RDiv(RSub(One, commission), RSub(layOdds, commission))

\* a null decision that reports zeros for the sizing fields
nullDecisionZero(reasons) ==
  [pModel |-> Null, pMarket |-> Null, edge |-> Null, priceShortened |-> FALSE,
   hasLayValue |-> FALSE, placeLay |-> FALSE, reasons |-> reasons,
   kelly |-> Null, ev |-> Zero, evPctBankroll |-> Zero]

nullDecision(reasons) ==
  [pModel |-> Null, pMarket |-> Null, edge |-> Null, priceShortened |-> FALSE,
   hasLayValue |-> FALSE, placeLay |-> FALSE, reasons |-> reasons,
   kelly |-> Null, ev |-> Null, evPctBankroll |-> Null]

\* the filters of evaluateRunner with zeros, not nulls, for the sizing fields
evaluateFiltersZero(input, pModel, pMarket) ==
  LET priceShortened == input.initialOdds # Null
                        /\ RLt(input.currentOdds, input.initialOdds)
      hasLayValue == RLt(pModel, pMarket)
  IN  [pModel |-> pModel, pMarket |-> pMarket, edge |-> RSub(pMarket, pModel),
       priceShortened |-> priceShortened, hasLayValue |-> hasLayValue,
       placeLay |-> priceShortened /\ hasLayValue,
       reasons |-> (IF ~priceShortened THEN <<"Price not shortened">> ELSE <<>>)
                   \o (IF ~hasLayValue
                       THEN <<"No lay value (model p >= market p)">> ELSE <<>>),
       kelly |-> Null, ev |-> Zero, evPctBankroll |-> Zero]

\* the two filters of evaluateRunner and the decision without sizing
evaluateFilters(input, pModel, pMarket) ==
  LET priceShortened == input.initialOdds # Null
                        /\ RLt(input.currentOdds, input.initialOdds)
      hasLayValue == RLt(pModel, pMarket)
  IN  [pModel |-> pModel, pMarket |-> pMarket, edge |-> RSub(pMarket, pModel),
       priceShortened |-> priceShortened, hasLayValue |-> hasLayValue,
       placeLay |-> priceShortened /\ hasLayValue,
       reasons |-> (IF ~priceShortened THEN <<"Price not shortened">> ELSE <<>>)
                   \o (IF ~hasLayValue
                       THEN <<"No lay value (model p >= market p)">> ELSE <<>>),
       kelly |-> Null, ev |-> Null, evPctBankroll |-> Null]

\* the decision after sizing, placing the lay whatever the Kelly fraction
evaluateSizedAlways(d, kelly) ==
  [d EXCEPT !.placeLay = TRUE,
            !.reasons = @ \o <<"PLACE LAY">>,
            !.kelly = kelly, !.ev = kelly.ev,
            !.evPctBankroll = kelly.evPctBankroll]

\* the decision once kellyLay has sized the bet
evaluateSized(d, kelly) ==
  IF RLe(kelly.kellyFraction, Zero)
  THEN [d EXCEPT !.placeLay = FALSE,
                 !.reasons = @ \o <<"Kelly fraction <= 0 (negative EV after commission)">>,
                 !.kelly = kelly, !.ev = kelly.ev,
                 !.evPctBankroll = kelly.evPctBankroll]
  ELSE [d EXCEPT !.placeLay = TRUE,
                 !.reasons = @ \o (IF kelly.belowMinStake
                                   THEN <<"Stake below min">> ELSE <<>>)
                               \o <<"PLACE LAY">>,
                 !.kelly = kelly, !.ev = kelly.ev,
                 !.evPctBankroll = kelly.evPctBankroll]

evaluateDecided(input, d) ==
  IF ~d.placeLay THEN d
  ELSE evaluateSized(d, kellyLay([bankroll |-> input.bankroll,
                                  layOdds |-> input.currentOdds,
                                  pWin |-> d.pModel,
                                  commission |-> input.commission,
                                  kellyMultiplier |-> input.kellyMultiplier,
                                  maxLiabilityPct |-> input.maxLiabilityPct,
                                  minStake |-> input.minStake]))

evaluateRunner(input) ==
  IF input.currentOdds = Null \/ RLe(input.currentOdds, One)
  THEN nullDecision(<<"No current odds available">>)
  ELSE evaluateDecided(input,
         evaluateFilters(input,
           modelProbability(IF input.averageOdds # Null THEN input.averageOdds
                            ELSE input.currentOdds, input.modelParams),
           marketImpliedProb(input.currentOdds)))

(***************************************************************************)
(* The feed: what fetchEvents returns in one refresh cycle                 *)
(***************************************************************************)
MaxCycles == 2
Clients == {"c1", "c2"}
EventId == "e1"
None == -1
\* the (bookmaker, outcome) places of an event, in the order the hook walks them,
\* each with the prices (in hundredths) the feed may carry there; None: no outcome
Slots ==
  << [bookmaker |-> "bet365", name |-> "r1", prices |-> {0, 400}],
     [bookmaker |-> "bet365", name |-> "r2", prices |-> {None, 300}],
     [bookmaker |-> "betfair_exchange", name |-> "r1", prices |-> {None, 200, 400}] >>

Feeds == {f \in [1..Len(Slots) -> {None, 0, 200, 300, 400}] :
            \A i \in 1..Len(Slots) : f[i] \in Slots[i].prices}

RECURSIVE OutcomesFrom(_, _)
OutcomesFrom(feed, i) ==
  IF i > Len(Slots) THEN <<>>
  ELSE (IF feed[i] = None THEN <<>>
        ELSE << [event_id |-> EventId, bookmaker |-> Slots[i].bookmaker,
                 name |-> Slots[i].name, price |-> feed[i]] >>)
       \o OutcomesFrom(feed, i + 1)

\* event -> bookmaker -> h2h market -> outcome, flattened in iteration order
Outcomes(feed) == OutcomesFrom(feed, 1)

KeyOf(event_id, runner_name) == <<event_id, runner_name>>

(***************************************************************************)
(* hooks/useOdds.ts: saveSnapshots (request body)                          *)
(***************************************************************************)
\* a filter that keeps placeholder prices
IsAnyOutcome(o) == o.price >= 0

IsRealOutcome(o) == o.price > 0

ToSnapshot(o) ==
  [event_id |-> o.event_id, bookmaker |-> o.bookmaker, runner_name |-> o.name,
   back_price |-> o.price, is_opening |-> FALSE]

RECURSIVE MapSnapshots(_)
MapSnapshots(os) ==
  IF os = <<>> THEN <<>> ELSE <<ToSnapshot(Head(os))>> \o MapSnapshots(Tail(os))

saveSnapshotsBody(evs) == MapSnapshots(SelectSeq(evs, IsRealOutcome))

(***************************************************************************)
(* app/api/snapshot/route.ts: POST                                         *)
(***************************************************************************)
SeqRange(s) == {s[i] : i \in 1..Len(s)}

\* .from('odds_snapshots').select(...).eq('is_opening', true).in('event_id', ids)
existingOpeningsQuery(rows, snapshots) ==
  LET eventIds == {s.event_id : s \in SeqRange(snapshots)}
  IN  {KeyOf(r.event_id, r.runner_name) :
         r \in {x \in SeqRange(rows) : x.is_opening /\ x.event_id \in eventIds}}

RECURSIVE MarkEvery(_, _, _)
MarkEvery(snapshots, existing, marked) ==
  IF snapshots = <<>> THEN <<>>
  ELSE LET s == Head(snapshots)
           key == KeyOf(s.event_id, s.runner_name)
           alreadyHasOpening == key \in existing
       IN  <<[s EXCEPT !.is_opening = ~alreadyHasOpening]>>
           \o MarkEvery(Tail(snapshots), existing, marked)

RECURSIVE MarkFrom(_, _, _)
MarkFrom(snapshots, existing, marked) ==
  IF snapshots = <<>> THEN <<>>
  ELSE LET s == Head(snapshots)
           key == KeyOf(s.event_id, s.runner_name)
           alreadyHasOpening == key \in existing \/ key \in marked
       IN  <<[s EXCEPT !.is_opening = ~alreadyHasOpening]>>
           \o MarkFrom(Tail(snapshots), existing,
                       IF alreadyHasOpening THEN marked ELSE marked \cup {key})

snapshotsToInsertEvery(snapshots, existing) == MarkEvery(snapshots, existing, {})

snapshotsToInsert(snapshots, existing) == MarkFrom(snapshots, existing, {})

RECURSIVE Stamp(_, _)
Stamp(rows, t) ==
  IF rows = <<>> THEN <<>>
  ELSE <<[event_id |-> Head(rows).event_id, bookmaker |-> Head(rows).bookmaker,
          runner_name |-> Head(rows).runner_name,
          back_price |-> Head(rows).back_price,
          is_opening |-> Head(rows).is_opening, snapshot_time |-> t]>>
       \o Stamp(Tail(rows), t)

(***************************************************************************)
(* hooks/useOdds.ts: fetchOpeningOdds                                      *)
(***************************************************************************)
RECURSIVE SumPrices(_)
SumPrices(ps) == IF ps = <<>> THEN 0 ELSE Head(ps) + SumPrices(Tail(ps))

IsOpeningPrice(r) == r.is_opening /\ r.back_price # 0 /\ r.back_price > 0

RECURSIVE PricesOf(_, _)
PricesOf(rows, key) ==
  IF rows = <<>> THEN <<>>
  ELSE (IF KeyOf(Head(rows).event_id, Head(rows).runner_name) = key
        THEN <<Head(rows).back_price>> ELSE <<>>)
       \o PricesOf(Tail(rows), key)

Average(ps) == Rat(SumPrices(ps), 100 * Len(ps))

openingOddsMap(rows) ==
  LET open == SelectSeq(rows, IsOpeningPrice)
      keys == {KeyOf(r.event_id, r.runner_name) : r \in SeqRange(open)}
  IN  [k \in keys |-> Average(PricesOf(open, k))]

EmptyMap == [k \in {} |-> Zero]

(***************************************************************************)
(* hooks/useOdds.ts: transformEvents                                       *)
(***************************************************************************)
\* the dashboard settings of the refresh cycles (percentages and money as numbers)
settings ==
  [bankroll |-> Int2R(1000),
   thresholds |-> [conservative |-> Int2R(15), strong |-> Int2R(25),
                   premium |-> Int2R(40)],
   kellyMultiplier |-> Rat(1, 2),
   maxLiabilityPct |-> Rat(3, 2),
   commission |-> Rat(5, 100),
   minStake |-> Int2R(2),
   modelAlpha |-> One,
   modelBeta |-> 1]

IsBetfair(o) == o.bookmaker = "betfair_exchange" \/ o.bookmaker = "betfair_ex"

RECURSIVE OutcomePrices(_)
OutcomePrices(os) ==
  IF os = <<>> THEN <<>> ELSE <<Head(os).price>> \o OutcomePrices(Tail(os))

\* the RunnerOdds of one runner: prices are the outcomes of that runner, in order
\* the runner mapping with the consensus price standing in for a missing
\* Betfair Exchange price
transformRunnerConsensus(event_id, name, prices, openingOdds, st) ==
  LET realPrices == SelectSeq(prices, IsRealOutcome)
      betfair == SelectSeq(realPrices, IsBetfair)
      betfairOdds == IF betfair = <<>> THEN Null ELSE Price(Head(betfair).price)
      currentAvgOdds == IF Len(realPrices) > 0
                        THEN Average(OutcomePrices(realPrices)) ELSE Null
      openingKey == KeyOf(event_id, name)
      hasDbOpening == openingKey \in DOMAIN openingOdds
      openingAverageOdds == IF hasDbOpening THEN openingOdds[openingKey]
                            ELSE currentAvgOdds
      priceUsed == IF betfairOdds # Null THEN betfairOdds ELSE currentAvgOdds
      compression == IF openingAverageOdds # Null /\ priceUsed # Null
                     THEN priceCompression(openingAverageOdds, priceUsed)
                     ELSE Null
      signal == IF compression # Null THEN valueSignal(compression, st.thresholds)
                ELSE "none"
  IN  [runnerName |-> name, bookmakerOdds |-> OutcomePrices(prices),
       betfairOdds |-> betfairOdds, openingAverageOdds |-> openingAverageOdds,
       hasDbOpening |-> hasDbOpening, averageOdds |-> currentAvgOdds,
       compressionPercent |-> compression, valueSignal |-> signal,
       layDecision |->
         evaluateRunner([initialOdds |-> openingAverageOdds,
                         currentOdds |-> priceUsed,
                         averageOdds |-> openingAverageOdds,
                         bankroll |-> st.bankroll, commission |-> st.commission,
                         kellyMultiplier |-> st.kellyMultiplier,
                         maxLiabilityPct |-> st.maxLiabilityPct,
                         minStake |-> st.minStake,
                         modelParams |-> [alpha |-> st.modelAlpha,
                                          beta |-> st.modelBeta]])]

transformRunner(event_id, name, prices, openingOdds, st) ==
  LET realPrices == SelectSeq(prices, IsRealOutcome)
      betfair == SelectSeq(realPrices, IsBetfair)
      betfairOdds == IF betfair = <<>> THEN Null ELSE Price(Head(betfair).price)
      currentAvgOdds == IF Len(realPrices) > 0
                        THEN Average(OutcomePrices(realPrices)) ELSE Null
      openingKey == KeyOf(event_id, name)
      hasDbOpening == openingKey \in DOMAIN openingOdds
      openingAverageOdds == IF hasDbOpening THEN openingOdds[openingKey]
                            ELSE currentAvgOdds
      compression == IF openingAverageOdds # Null /\ betfairOdds # Null
                     THEN priceCompression(openingAverageOdds, betfairOdds)
                     ELSE Null
      signal == IF compression # Null THEN valueSignal(compression, st.thresholds)
                ELSE "none"
  IN  [runnerName |-> name, bookmakerOdds |-> OutcomePrices(prices),
       betfairOdds |-> betfairOdds, openingAverageOdds |-> openingAverageOdds,
       hasDbOpening |-> hasDbOpening, averageOdds |-> currentAvgOdds,
       compressionPercent |-> compression, valueSignal |-> signal,
       layDecision |->
         evaluateRunner([initialOdds |-> openingAverageOdds,
                         currentOdds |-> betfairOdds,
                         averageOdds |-> openingAverageOdds,
                         bankroll |-> st.bankroll, commission |-> st.commission,
                         kellyMultiplier |-> st.kellyMultiplier,
                         maxLiabilityPct |-> st.maxLiabilityPct,
                         minStake |-> st.minStake,
                         modelParams |-> [alpha |-> st.modelAlpha,
                                          beta |-> st.modelBeta]])]

\* the runners of the races, by event and runner name
transformEvents(evs, openingOdds, st) ==
  LET keys == {KeyOf(o.event_id, o.name) : o \in SeqRange(evs)}
  IN  [k \in keys |->
         LET OfRunner(o) == KeyOf(o.event_id, o.name) = k
         IN  transformRunner(k[1], k[2], SelectSeq(evs, OfRunner), openingOdds, st)]

(***************************************************************************)
(* hooks/useSettings.ts and the Kelly controls of components/SettingsPanel *)
(***************************************************************************)
\* lib/constants.ts; the fields the panel's money and Kelly controls write
DEFAULT_SETTINGS ==
  [bankroll |-> Int2R(1000), kellyMode |-> "half", kellyMultiplier |-> Rat(1, 2),
   maxLiabilityPct |-> Rat(3, 2)]

\* { ...prev, ...updates }
Spread(prev, updates) ==
  [k \in DOMAIN prev |-> IF k \in DOMAIN updates THEN updates[k] ELSE prev[k]]

\* the next state updateSettings computes from prev
updateSettings(prev, updates) ==
  IF "kellyMode" \in DOMAIN updates
  THEN IF updates.kellyMode = "full"
       THEN [Spread(prev, updates) EXCEPT !.kellyMultiplier = One]
       ELSE IF updates.kellyMode = "half"
       THEN [Spread(prev, updates) EXCEPT !.kellyMultiplier = Rat(1, 2)]
       ELSE Spread(prev, updates)
  ELSE Spread(prev, updates)

\* the multiplier input is on the page whatever the mode
MultiplierInputAlways(s) == TRUE

\* {settings.kellyMode === 'custom' && (<input ... />)}
MultiplierInputShown(s) == s.kellyMode = "custom"

\* the multiplier the mode buttons send with the mode
ModeMultiplier(mode, s) ==
  IF mode = "full" THEN One
  ELSE IF mode = "half" THEN Rat(1, 2) ELSE s.kellyMultiplier

(***************************************************************************)
(* The refresh cycle of useOdds (queryFn) of each client, with the POST    *)
(* handler its save request runs on the server                             *)
(***************************************************************************)
NoStatus == [saved |-> 0, error |-> FALSE]
NoOpening == [data |-> EmptyMap, connected |-> FALSE]

\* no refresh cycle has run and the table is empty
CycleInit ==
  /\ userSettings = DEFAULT_SETTINGS
  /\ localStorage = Null
  /\ db = <<>>
  /\ clock = 0
  /\ cycles = 0
  /\ pc = [c \in Clients |-> "idle"]
  /\ events = [c \in Clients |-> <<>>]
  /\ selectedAt = [c \in Clients |-> 0]
  /\ existingOpenings = [c \in Clients |-> {}]
  /\ snapshotStatus = [c \in Clients |-> NoStatus]
  /\ openingResult = [c \in Clients |-> NoOpening]
  /\ races = [c \in Clients |-> EmptyMap]

Init ==
  /\ CycleInit
  /\ arg = Null
  /\ res = Null

\* the cycle with the save request sent and not awaited
FetchEventsNoAwait(c) ==
  /\ pc[c] = "idle"
  /\ cycles < MaxCycles
  /\ \E feed \in Feeds :
       /\ events' = [events EXCEPT ![c] = Outcomes(feed)]
       /\ pc' = [pc EXCEPT ![c] = "fetch_opening"]
  /\ cycles' = cycles + 1
  /\ snapshotStatus' = [snapshotStatus EXCEPT ![c] = NoStatus]
  /\ races' = [races EXCEPT ![c] = EmptyMap]
  /\ openingResult' = [openingResult EXCEPT ![c] = NoOpening]
  /\ UNCHANGED <<db, clock, selectedAt, existingOpenings, arg, res, userSettings, localStorage>>

\* const events = await fetchEvents(); saveSnapshots builds and sends its request
FetchEvents(c) ==
  /\ pc[c] = "idle"
  /\ cycles < MaxCycles
  /\ \E feed \in Feeds :
       /\ events' = [events EXCEPT ![c] = Outcomes(feed)]
       /\ pc' = [pc EXCEPT ![c] =
                   IF saveSnapshotsBody(Outcomes(feed)) = <<>>
                   THEN "fetch_opening" ELSE "post_select"]
  /\ cycles' = cycles + 1
  /\ snapshotStatus' = [snapshotStatus EXCEPT ![c] = NoStatus]
  /\ races' = [races EXCEPT ![c] = EmptyMap]
  /\ openingResult' = [openingResult EXCEPT ![c] = NoOpening]
  /\ UNCHANGED <<db, clock, selectedAt, existingOpenings, arg, res, userSettings, localStorage>>

\* the request never reaches the route: saveSnapshots' catch
SaveRequestFails(c) ==
  /\ pc[c] = "post_select"
  /\ pc' = [pc EXCEPT ![c] = "fetch_opening"]
  /\ snapshotStatus' = [snapshotStatus EXCEPT ![c] = [saved |-> 0, error |-> TRUE]]
  /\ UNCHANGED <<db, clock, cycles, events, selectedAt, existingOpenings,
                 openingResult, races, arg, res, userSettings, localStorage>>

\* POST: the query for the existing openings answers
PostSelect(c) ==
  /\ pc[c] = "post_select"
  /\ existingOpenings' = [existingOpenings EXCEPT ![c] =
        existingOpeningsQuery(db, saveSnapshotsBody(events[c]))]
  /\ selectedAt' = [selectedAt EXCEPT ![c] = Len(db)]
  /\ pc' = [pc EXCEPT ![c] = "post_insert"]
  /\ UNCHANGED <<db, clock, cycles, events, snapshotStatus, openingResult,
                 races, arg, res, userSettings, localStorage>>

\* POST: the query fails, data is null and the error is not looked at
PostSelectFails(c) ==
  /\ pc[c] = "post_select"
  /\ existingOpenings' = [existingOpenings EXCEPT ![c] = {}]
  /\ selectedAt' = [selectedAt EXCEPT ![c] = Len(db)]
  /\ pc' = [pc EXCEPT ![c] = "post_insert"]
  /\ UNCHANGED <<db, clock, cycles, events, snapshotStatus, openingResult,
                 races, arg, res, userSettings, localStorage>>

\* POST: the rows are marked and inserted
PostInsert(c) ==
  /\ pc[c] = "post_insert"
  /\ LET rows == snapshotsToInsert(saveSnapshotsBody(events[c]), existingOpenings[c])
     IN  /\ db' = db \o Stamp(rows, clock + 1)
         /\ snapshotStatus' = [snapshotStatus EXCEPT ![c] =
                                 [saved |-> Len(rows), error |-> FALSE]]
  /\ clock' = clock + 1
  /\ pc' = [pc EXCEPT ![c] = "fetch_opening"]
  /\ existingOpenings' = [existingOpenings EXCEPT ![c] = {}]
  /\ selectedAt' = [selectedAt EXCEPT ![c] = 0]
  /\ UNCHANGED <<cycles, events, openingResult, races, arg, res, userSettings, localStorage>>

\* POST: the insert returns an error, the route answers 500 with saved: 0
PostInsertFails(c) ==
  /\ pc[c] = "post_insert"
  /\ snapshotStatus' = [snapshotStatus EXCEPT ![c] = [saved |-> 0, error |-> TRUE]]
  /\ pc' = [pc EXCEPT ![c] = "fetch_opening"]
  /\ existingOpenings' = [existingOpenings EXCEPT ![c] = {}]
  /\ selectedAt' = [selectedAt EXCEPT ![c] = 0]
  /\ UNCHANGED <<db, clock, cycles, events, openingResult, races, arg, res, userSettings, localStorage>>

\* fetchOpeningOdds reads /api/history?opening=true, then transformEvents runs
FetchOpeningOdds(c) ==
  /\ pc[c] = "fetch_opening"
  /\ openingResult' = [openingResult EXCEPT ![c] =
                         [data |-> openingOddsMap(db), connected |-> TRUE]]
  /\ races' = [races EXCEPT ![c] =
                 transformEvents(events[c], openingOddsMap(db), settings)]
  /\ pc' = [pc EXCEPT ![c] = "idle"]
  /\ events' = [events EXCEPT ![c] = <<>>]
  /\ UNCHANGED <<db, clock, cycles, selectedAt, existingOpenings,
                 snapshotStatus, arg, res, userSettings, localStorage>>

\* fetchOpeningOdds: the response is not ok, carries an error, or fetch throws;
\* transformEvents runs on the empty map
FetchOpeningOddsFails(c) ==
  /\ pc[c] = "fetch_opening"
  /\ openingResult' = [openingResult EXCEPT ![c] = NoOpening]
  /\ races' = [races EXCEPT ![c] = transformEvents(events[c], EmptyMap, settings)]
  /\ pc' = [pc EXCEPT ![c] = "idle"]
  /\ events' = [events EXCEPT ![c] = <<>>]
  /\ UNCHANGED <<db, clock, cycles, selectedAt, existingOpenings,
                 snapshotStatus, arg, res, userSettings, localStorage>>

Next ==
  \E c \in Clients :
    \/ FetchEvents(c)
    \/ SaveRequestFails(c)
    \/ PostSelect(c)
    \/ PostSelectFails(c)
    \/ PostInsert(c)
    \/ PostInsertFails(c)
    \/ FetchOpeningOdds(c)
    \/ FetchOpeningOddsFails(c)

Spec == Init /\ [][Next]_vars

\* the same cycles when every request and query succeeds
NextReliable ==
  \E c \in Clients :
    \/ FetchEvents(c)
    \/ PostSelect(c)
    \/ PostInsert(c)
    \/ FetchOpeningOdds(c)

SpecReliable == Init /\ [][NextReliable]_vars

\* ---- one dashboard, every call succeeds, and the feed may carry prices of 1.00
\* and below
LowSlots ==
  << [bookmaker |-> "bet365", name |-> "r1", prices |-> {50, 100, 400}],
     [bookmaker |-> "bet365", name |-> "r2", prices |-> {None, 300}],
     [bookmaker |-> "betfair_exchange", name |-> "r1", prices |-> {None, 100, 200}] >>

LowFeeds == {f \in [1..Len(LowSlots) -> {None, 50, 100, 200, 300, 400}] :
               \A i \in 1..Len(LowSlots) : f[i] \in LowSlots[i].prices}

RECURSIVE LowOutcomesFrom(_, _)
LowOutcomesFrom(feed, i) ==
  IF i > Len(LowSlots) THEN <<>>
  ELSE (IF feed[i] = None THEN <<>>
        ELSE << [event_id |-> EventId, bookmaker |-> LowSlots[i].bookmaker,
                 name |-> LowSlots[i].name, price |-> feed[i]] >>)
       \o LowOutcomesFrom(feed, i + 1)

\* const events = await fetchEvents(), from the feed with low prices
FetchLowEvents(c) ==
  /\ pc[c] = "idle"
  /\ cycles < MaxCycles
  /\ \E feed \in LowFeeds :
       /\ events' = [events EXCEPT ![c] = LowOutcomesFrom(feed, 1)]
       /\ pc' = [pc EXCEPT ![c] =
                   IF saveSnapshotsBody(LowOutcomesFrom(feed, 1)) = <<>>
                   THEN "fetch_opening" ELSE "post_select"]
  /\ cycles' = cycles + 1
  /\ snapshotStatus' = [snapshotStatus EXCEPT ![c] = NoStatus]
  /\ races' = [races EXCEPT ![c] = EmptyMap]
  /\ openingResult' = [openingResult EXCEPT ![c] = NoOpening]
  /\ UNCHANGED <<db, clock, selectedAt, existingOpenings, arg, res, userSettings, localStorage>>

NextLow ==
  \/ FetchLowEvents("c1")
  \/ PostSelect("c1")
  \/ PostInsert("c1")
  \/ FetchOpeningOdds("c1")

SpecLow == Init /\ [][NextLow]_vars

(***************************************************************************)
(* The pure functions, applied to inputs drawn from bounded sets:          *)
(* arg is the input, res the result (null until the function has run)      *)
(***************************************************************************)
CycleVars == <<db, clock, cycles, pc, events, selectedAt, existingOpenings,
               snapshotStatus, openingResult, races>>

\* ---- the classifier: priceCompression and valueSignal as transformEvents uses them
AnchorPrices == {400, 10000}
CurrentPrices == {200, 240, 300, 340, 400, 500, 5000, 6000, 6001, 7500, 7501,
                  8500, 8510, 10000, 12000}
Thr(c, s, p) == [conservative |-> Int2R(c), strong |-> Int2R(s), premium |-> Int2R(p)]
ThresholdChoices == {Thr(15, 25, 40), Thr(0, 0, 0), Thr(0, 25, 40), Thr(10, 10, 10),
                     Thr(40, 25, 15)}

ClassifyInputs ==
  [anchor : {Price(a) : a \in AnchorPrices},
   current : {Price(c) : c \in CurrentPrices},
   thresholds : ThresholdChoices]

classify(in) ==
  LET compression == IF in.anchor # Null /\ in.current # Null
                     THEN priceCompression(in.anchor, in.current) ELSE Null
  IN  [compression |-> compression,
       signal |-> IF compression # Null THEN valueSignal(compression, in.thresholds)
                  ELSE "none"]

InitClassify == CycleInit /\ arg \in ClassifyInputs /\ res = Null

Classify ==
  /\ res = Null
  /\ res' = classify(arg)
  /\ UNCHANGED <<arg, CycleVars, userSettings, localStorage>>

SpecClassify == InitClassify /\ [][Classify]_vars

\* ---- the probability model
OddsChoices == {50, 100, 101, 110, 150, 200, 250, 300, 350, 400, 500, 1000, 2500}
AlphaChoices == {One, Rat(1, 2), Int2R(2)}
BetaChoices == {1, 2}

ProbInputs ==
  [decimalOdds : {Price(o) : o \in OddsChoices},
   params : [alpha : AlphaChoices, beta : BetaChoices]]

InitProb == CycleInit /\ arg \in ProbInputs /\ res = Null

Prob ==
  /\ res = Null
  /\ res' = [pModel |-> modelProbability(arg.decimalOdds, arg.params),
             pMarket |-> marketImpliedProb(arg.decimalOdds)]
  /\ UNCHANGED <<arg, CycleVars, userSettings, localStorage>>

SpecProb == InitProb /\ [][Prob]_vars

\* ---- the decision orchestrator
\* a runner whose edge is positive and below half of 0.0001: with no commission,
\* anchor 3.00, price 2.00 and alpha 0.50005 the model probability is 10000/20001
\* and the full Kelly fraction is 1/20001
ThinEdgeInputs ==
  [initialOdds : {Null, Price(300)},
   currentOdds : {Null, Price(200)},
   averageOdds : {Null, Price(300)},
   bankroll : {Zero, Int2R(1000)},
   commission : {Zero},
   kellyMultiplier : {Zero, Rat(1, 2)},
   maxLiabilityPct : {Zero, Rat(3, 2)},
   minStake : {Int2R(2), Int2R(20)},
   modelParams : [alpha : {Rat(20002, 40000)}, beta : {1}]]

EvalInputs ==
  [initialOdds : {Null, Price(200), Price(300), Price(400)},
   currentOdds : {Null, Price(100), Price(200), Price(300), Price(350)},
   averageOdds : {Null, Price(150), Price(204), Price(300), Price(400)},
   bankroll : {Zero, Int2R(1000)},
   commission : {Rat(5, 100)},
   kellyMultiplier : {Zero, Rat(1, 2)},
   maxLiabilityPct : {Zero, Rat(3, 2)},
   minStake : {Int2R(2), Int2R(20)},
   modelParams : [alpha : {Rat(1, 2), One, Int2R(2)}, beta : {1}]]
  \cup ThinEdgeInputs

InitEval == CycleInit /\ arg \in EvalInputs /\ res = Null

Eval ==
  /\ res = Null
  /\ res' = evaluateRunner(arg)
  /\ UNCHANGED <<arg, CycleVars, userSettings, localStorage>>

SpecEval == InitEval /\ [][Eval]_vars

\* ---- the Kelly calculator: kellyLayStake on the fields of the form
CalcInputs ==
  [initialOdds : {Price(200), Price(500), Price(1000)},
   layOdds : {Price(100), Price(200), Price(350)},
   bankroll : {Int2R(1000), Rat(10050, 100)},
   multiplier : {Rat(1, 2), One},
   maxLiab : {Rat(3, 2), Int2R(50), Int2R(100)}]

InitCalc == CycleInit /\ arg \in CalcInputs /\ res = Null

KellyCalculator ==
  /\ res = Null
  /\ res' = kellyLayStake([bankroll |-> arg.bankroll,
                           trueProb |-> impliedProbability(arg.initialOdds),
                           currentLayOdds |-> arg.layOdds,
                           kellyMultiplier |-> arg.multiplier,
                           maxLiabilityPct |-> arg.maxLiab])
  /\ UNCHANGED <<arg, CycleVars, userSettings, localStorage>>

SpecCalc == InitCalc /\ [][KellyCalculator]_vars

\* ---- the settings hook under the controls of the settings panel
BankrollChoices == {Zero, Int2R(1000), Int2R(2000)}
MultiplierChoices == {Zero, Rat(1, 2), One, Rat(3, 2)}
MaxLiabilityChoices == {Zero, Rat(3, 2)}
KellyModes == {"full", "half", "custom"}

InitSettings == CycleInit /\ arg = Null /\ res = Null

\* setSettings(next) and localStorage.setItem, whose failure is ignored
Commit(next) ==
  /\ userSettings' = next
  /\ \/ localStorage' = next
     \/ UNCHANGED localStorage
  /\ UNCHANGED <<arg, res, CycleVars>>

\* onUpdate({ bankroll: parseFloat(e.target.value) || 0 })
SetBankroll ==
  \E v \in BankrollChoices :
    Commit(updateSettings(userSettings, [bankroll |-> v]))

\* a click on one of the mode buttons
SetKellyMode ==
  \E mode \in KellyModes :
    Commit(updateSettings(userSettings,
                          [kellyMode |-> mode,
                           kellyMultiplier |-> ModeMultiplier(mode, userSettings)]))

\* onUpdate({ kellyMultiplier: parseFloat(e.target.value) || 0 })
SetKellyMultiplier ==
  /\ MultiplierInputShown(userSettings)
  /\ \E v \in MultiplierChoices :
       Commit(updateSettings(userSettings, [kellyMultiplier |-> v]))

\* onUpdate({ maxLiabilityPct: parseFloat(e.target.value) || 0 })
SetMaxLiabilityPct ==
  \E v \in MaxLiabilityChoices :
    Commit(updateSettings(userSettings, [maxLiabilityPct |-> v]))

\* resetSettings: the defaults, and localStorage.removeItem, whose failure is ignored
ResetSettings ==
  /\ userSettings' = DEFAULT_SETTINGS
  /\ \/ localStorage' = Null
     \/ UNCHANGED localStorage
  /\ UNCHANGED <<arg, res, CycleVars>>

\* a page load: the initial state of useState from the stored item
LoadSettings ==
  /\ userSettings' = IF localStorage # Null
                     THEN Spread(DEFAULT_SETTINGS, localStorage)
                     ELSE DEFAULT_SETTINGS
  /\ UNCHANGED <<localStorage, arg, res, CycleVars>>

NextSettings ==
  \/ SetBankroll
  \/ SetKellyMode
  \/ SetKellyMultiplier
  \/ SetMaxLiabilityPct
  \/ ResetSettings
  \/ LoadSettings

SpecSettings == InitSettings /\ [][NextSettings]_vars

\* ---- the sizing engine
KellyInputs ==
  [bankroll : {Int2R(0), Int2R(1000), Rat(10050, 100)},
   layOdds : {Price(100), Price(200), Price(350), Price(500)},
   pWin : {Rat(1, 10), Rat(1, 5), Rat(49, 100), Rat(1, 2)},
   commission : {Zero, Rat(5, 100)},
   kellyMultiplier : {Rat(1, 2), One, Int2R(2)},
   maxLiabilityPct : {Rat(3, 2), Int2R(100), Int2R(150)},
   minStake : {Zero, Int2R(2)}]

InitKelly == CycleInit /\ arg \in KellyInputs /\ res = Null

Kelly ==
  /\ res = Null
  /\ res' = [raw |-> kellyLayRaw(arg), out |-> kellyLay(arg)]
  /\ UNCHANGED <<arg, CycleVars, userSettings, localStorage>>

SpecKelly == InitKelly /\ [][Kelly]_vars

(***************************************************************************)
(* Properties                                                              *)
(***************************************************************************)
RowKey(r) == KeyOf(r.event_id, r.runner_name)
OpeningKeys(rows) == {RowKey(r) : r \in {x \in SeqRange(rows) : x.is_opening}}
OpeningRows(rows, k) == {i \in 1..Len(rows) : rows[i].is_opening /\ RowKey(rows[i]) = k}
AllKeys == {KeyOf(EventId, Slots[i].name) : i \in 1..Len(Slots)}
SetMin(S) == CHOOSE m \in S : \A x \in S : m <= x

\* client c's POST handler inserts its rows in this step
InsertStep(c) == pc[c] = "post_insert" /\ pc'[c] = "fetch_opening" /\ Len(db') > Len(db)
NewRows == (Len(db) + 1)..Len(db')

\* C1: in every reachable state, also when two POST handlers run concurrently, at
\* most one row of odds_snapshots per (event, runner) has is_opening = true.
C1_AtMostOneOpening == \A k \in AllKeys : Cardinality(OpeningRows(db, k)) <= 1

\* C2: a batch whose handler starts after an opening row of a runner has been
\* recorded inserts no row with is_opening = true for that runner.
C2_ReplayNeverOpens ==
  [][\A c \in Clients :
       InsertStep(c) =>
         \A i \in NewRows :
           RowKey(db'[i]) \in OpeningKeys(SubSeq(db, 1, selectedAt[c]))
             => ~db'[i].is_opening]_vars

\* C3: in one inserted batch, for a runner with no opening row in the table, exactly
\* the first row of that runner is flagged is_opening and the others are not.
C3_FirstOfBatchOnly ==
  [][\A c \in Clients :
       InsertStep(c) =>
         \A k \in {RowKey(db'[i]) : i \in NewRows} \ OpeningKeys(db) :
           LET mine == {i \in NewRows : RowKey(db'[i]) = k}
           IN  \A i \in mine : db'[i].is_opening <=> i = SetMin(mine)]_vars

\* C3 witness: a recorded batch holds two rows of one runner that had no opening row
\* before it; the first is the opening and the second is not.
C3_Witness ==
  \E i, j \in 1..Len(db) :
    /\ i < j
    /\ RowKey(db[i]) = RowKey(db[j])
    /\ db[i].snapshot_time = db[j].snapshot_time
    /\ db[i].is_opening /\ ~db[j].is_opening
    /\ \A h \in 1..(i - 1) : RowKey(db[h]) # RowKey(db[i])

\* the rows of the first recorded batch in which runner k appears
FirstBatchPrices(rows, k) ==
  LET OfKey(r) == RowKey(r) = k
      mine == SelectSeq(rows, OfKey)
      InFirst(r) == r.snapshot_time = Head(mine).snapshot_time
  IN  PricesOf(SelectSeq(mine, InFirst), k)

\* C4: the anchor the opening lookup returns for a runner is the arithmetic mean of
\* all the prices recorded for the runner in the first batch in which it appeared.
C4_AnchorIsFirstBatchMean ==
  \A c \in Clients :
    openingResult[c].connected =>
      \A k \in DOMAIN openingResult[c].data :
        openingResult[c].data[k] = Average(FirstBatchPrices(db, k))

\* C5: once the opening lookup has an anchor for a runner, no later step changes it.
C5_AnchorNeverChanges ==
  [][\A k \in DOMAIN openingOddsMap(db) :
       /\ k \in DOMAIN openingOddsMap(db')
       /\ openingOddsMap(db')[k] = openingOddsMap(db)[k]]_vars

\* C6: a runner without a persisted anchor has null compression, signal none,
\* priceShortened false and placeLay false.
C6_NoAnchorNoSignal ==
  \A c \in Clients :
    \A k \in DOMAIN races[c] :
      ~races[c][k].hasDbOpening =>
        /\ races[c][k].compressionPercent = Null
        /\ races[c][k].valueSignal = "none"
        /\ ~races[c][k].layDecision.priceShortened
        /\ ~races[c][k].layDecision.placeLay

\* C7: with anchor > 0 and all thresholds >= 0, the signal is none whenever the
\* compression is <= 0.
C7_NoSignalUnlessShortened ==
  (res # Null /\ RGt(arg.anchor, Zero)
     /\ RGe(arg.thresholds.conservative, Zero)
     /\ RGe(arg.thresholds.strong, Zero)
     /\ RGe(arg.thresholds.premium, Zero)
     /\ RLe(res.compression, Zero))
  => res.signal = "none"

\* C8: with thresholds (15, 25, 40) the signal is premium exactly for compression
\* >= 40, strong exactly for [25, 40), conservative exactly for [15, 25) and none
\* exactly below 15.
C8_TiersOfDefaultThresholds ==
  (res # Null /\ arg.thresholds = Thr(15, 25, 40)) =>
    LET x == res.compression
    IN  /\ res.signal = "premium" <=> RGe(x, Int2R(40))
        /\ res.signal = "strong" <=> (RGe(x, Int2R(25)) /\ RLt(x, Int2R(40)))
        /\ res.signal = "conservative" <=> (RGe(x, Int2R(15)) /\ RLt(x, Int2R(25)))
        /\ res.signal = "none" <=> RLt(x, Int2R(15))

\* C8 witness: the classifier has run on a compression of exactly 25 percent (a lower
\* boundary) with the thresholds (15, 25, 40).
C8_Witness ==
  /\ res # Null
  /\ arg.thresholds = Thr(15, 25, 40)
  /\ res.compression = Int2R(25)
  /\ res.signal = "strong"

\* C9: for decimal odds O > 1 the market-implied probability is 1/O, and the model
\* probability with alpha = 1, beta = 1 equals it.
C9_CalibrationIdentity ==
  (res # Null /\ RGt(arg.decimalOdds, One)) =>
    /\ RMul(res.pMarket, arg.decimalOdds) = One
    /\ (arg.params.alpha = One /\ arg.params.beta = 1) => res.pModel = res.pMarket

\* C9 witness: both probabilities have been computed for odds 3.50 with alpha = beta = 1.
C9_Witness ==
  /\ res # Null
  /\ arg.decimalOdds = Price(350)
  /\ arg.params.alpha = One /\ arg.params.beta = 1
  /\ res.pModel = Rat(2, 7)

\* the input of the regression example of the sizing engine
KellyExample ==
  [bankroll |-> Int2R(1000), layOdds |-> Price(350), pWin |-> Rat(1, 5),
   commission |-> Rat(5, 100), kellyMultiplier |-> One,
   maxLiabilityPct |-> Int2R(100), minStake |-> Zero]

\* C10: for lay odds > 1, f* * (1 - c) = (1 - p)(1 - c) - p (O - 1); when kellyLay
\* bets, the liability before the cap is min(f* * multiplier, 1) * bankroll and
\* stake * (O - 1) is the liability; the example input reports kellyFraction 0.2737,
\* liability 273.68 and stake 109.47.
C10_KellyFormula ==
  res # Null =>
    LET k == res.raw
        om1 == RSub(arg.layOdds, One)
        c1 == RSub(One, arg.commission)
    IN  /\ RGt(om1, Zero) =>
             RMul(k.kellyFraction, c1)
               = RSub(RMul(RSub(One, arg.pWin), c1), RMul(arg.pWin, om1))
        /\ k.bet =>
             /\ k.uncappedLiab
                  = RMul(RMin(RMul(k.kellyFraction, arg.kellyMultiplier), One),
                         arg.bankroll)
             /\ ~k.cappedByMaxLiability => k.liab = k.uncappedLiab
             /\ RMul(k.stake, om1) = k.liab
             /\ res.out.liability = round2(k.liab)
             /\ res.out.layStake = round2(k.stake)
             /\ res.out.kellyFraction = round4(k.kellyFraction)
        /\ arg = KellyExample =>
             /\ res.out.kellyFraction = Rat(2737, 10000)
             /\ res.out.liability = Rat(27368, 100)
             /\ res.out.layStake = Rat(10947, 100)
             /\ ~res.out.cappedByMaxLiability

\* C10 witness: kellyLay has run on the example input and bets.
C10_Witness ==
  /\ res # Null
  /\ arg = KellyExample
  /\ res.raw.bet
  /\ res.out.kellyFraction = Rat(2737, 10000)

\* the closed form of the full-Kelly fraction, 0 for degenerate odds
FStar(p) ==
  IF RGt(p.layOdds, One)
  THEN RSub(RSub(One, p.pWin),
            RDiv(RMul(p.pWin, RSub(p.layOdds, One)), RSub(One, p.commission)))
  ELSE Zero

NoEdge(p) == RLe(FStar(p), Zero) \/ RLe(p.layOdds, One) \/ RLe(p.bankroll, Zero)

\* C11: whenever f* <= 0, lay odds <= 1 or bankroll <= 0, kellyLay returns the
\* no-bet result: stake, liability, payoffs and EV fields 0, both flags false, and
\* kellyFraction = max(f*, 0), never negative.
C11_NoBetResult ==
  (res # Null /\ NoEdge(arg)) =>
    /\ res.out.layStake = Zero /\ res.out.liability = Zero
    /\ res.out.profitIfLoses = Zero /\ res.out.lossIfWins = Zero
    /\ res.out.ev = Zero /\ res.out.evPctBankroll = Zero
    /\ res.out.evPerLiability = Zero
    /\ ~res.out.cappedByMaxLiability /\ ~res.out.belowMinStake
    /\ res.out.kellyFraction = RMax(FStar(arg), Zero)
    /\ RGe(res.out.kellyFraction, Zero)

\* C11 witness: kellyLay has run on an input with a negative f* (odds 3.50, p 0.5)
\* and a positive bankroll, and reports kellyFraction 0.
C11_Witness ==
  /\ res # Null
  /\ RLt(FStar(arg), Zero)
  /\ RGt(arg.bankroll, Zero) /\ RGt(arg.layOdds, One)
  /\ res.out.kellyFraction = Zero /\ res.out.layStake = Zero

\* the liability ceiling and the liability before the cap, from the inputs
Ceiling(p) == RMul(p.bankroll, RDiv(p.maxLiabilityPct, Int2R(100)))
UncappedLiab(p) ==
  RMul(RMin(RMul(FStar(p), p.kellyMultiplier), One), p.bankroll)

\* the flag and the clamp of the cap, on the unrounded values
CapExact ==
  /\ res.out.cappedByMaxLiability
       <=> (~NoEdge(arg) /\ RGt(UncappedLiab(arg), Ceiling(arg)))
  /\ res.out.cappedByMaxLiability =>
       /\ res.raw.liab = Ceiling(arg)
       /\ res.raw.stake = RDiv(Ceiling(arg), RSub(arg.layOdds, One))

\* C12 as stated: the liability kellyLay returns never exceeds
\* bankroll * maxLiabilityPct / 100; capped exactly when the uncapped liability
\* exceeded the ceiling, and then liability = ceiling, stake = ceiling / (odds - 1).
C12_ReturnedWithinCeiling ==
  res # Null => (RLe(res.out.liability, Ceiling(arg)) /\ CapExact)

\* C12 amended: for bankroll >= 0 the unrounded liability never exceeds the ceiling
\* and the returned liability, rounded to 2 decimals, never exceeds the ceiling
\* rounded to 2 decimals; the flag and the clamp are as stated.
C12_WithinRoundedCeiling ==
  res # Null =>
    /\ RLe(res.raw.liab, Ceiling(arg))
    /\ res.out.liability = round2(res.raw.liab)
    /\ RLe(res.out.liability, round2(Ceiling(arg)))
    /\ CapExact

\* C12 witness: kellyLay has capped a bet at a ceiling that is not a whole number
\* of pence, and the liability it returns is the ceiling rounded up.
C12_Witness ==
  /\ res # Null
  /\ res.out.cappedByMaxLiability
  /\ res.raw.liab = Ceiling(arg)
  /\ RGt(res.out.liability, Ceiling(arg))

RAbs(a) == IF a[1] < 0 THEN <<-a[1], a[2]>> ELSE a

\* the expected value recomputed from a stake through profitIfLose and lossIfWin
EvFromStake(p, stake) ==
  RSub(RMul(RSub(One, p.pWin), profitIfLose(stake, p.commission)),
       RMul(p.pWin, lossIfWin(stake, p.layOdds)))

\* C14: the expected value recomputed from the stake kellyLay returns, through
\* profitIfLose and lossIfWin, is within one penny of the ev it reports; layEV of
\* that stake gives the same recomputed value; from the unrounded stake the
\* recomputed value rounds to exactly the reported ev.
C14_EvRoundTrip ==
  res # Null =>
    /\ RLe(RAbs(RSub(EvFromStake(arg, res.out.layStake), res.out.ev)), Rat(1, 100))
    /\ layEV([stake |-> res.out.layStake, layOdds |-> arg.layOdds,
              pWin |-> arg.pWin, commission |-> arg.commission])
         = EvFromStake(arg, res.out.layStake)
    /\ round2(EvFromStake(arg, res.raw.stake)) = res.out.ev

\* C14 witness: kellyLay has sized a bet with a positive expected value whose stake
\* was rounded, and the recomputed value differs from the reported one by rounding
\* only.
C14_Witness ==
  /\ res # Null
  /\ res.raw.bet
  /\ RGt(res.out.ev, Zero)
  /\ res.out.layStake # res.raw.stake
  /\ EvFromStake(arg, res.out.layStake) # res.out.ev

\* C15: without a current execution price (currentOdds null) evaluateRunner returns
\* placeLay false with the single reason 'No current odds available', both flags
\* false, and pModel, pMarket, edge, kelly, ev and evPctBankroll null.
C15_NoCurrentOdds ==
  (res # Null /\ arg.currentOdds = Null) =>
    /\ ~res.placeLay
    /\ res.reasons = <<"No current odds available">>
    /\ ~res.priceShortened /\ ~res.hasLayValue
    /\ res.pModel = Null /\ res.pMarket = Null /\ res.edge = Null
    /\ res.kelly = Null /\ res.ev = Null /\ res.evPctBankroll = Null

\* C15 witness: evaluateRunner has run without current odds although an anchor
\* and a consensus price were there.
C15_Witness ==
  /\ res # Null
  /\ arg.currentOdds = Null
  /\ arg.initialOdds # Null /\ arg.averageOdds # Null
  /\ res.reasons = <<"No current odds available">>

\* the conditions of a decision, from the input
HasCurrent(in) == in.currentOdds # Null /\ RGt(in.currentOdds, One)
PriceShortened(in) ==
  in.initialOdds # Null /\ in.currentOdds # Null
    /\ RLt(in.currentOdds, in.initialOdds)
HasLayValue(in) ==
  in.currentOdds # Null
    /\ RLt(modelProbability(IF in.averageOdds # Null THEN in.averageOdds
                            ELSE in.currentOdds, in.modelParams),
           marketImpliedProb(in.currentOdds))
SizingOf(in) ==
  kellyLay([bankroll |-> in.bankroll, layOdds |-> in.currentOdds,
            pWin |-> modelProbability(IF in.averageOdds # Null THEN in.averageOdds
                                      ELSE in.currentOdds, in.modelParams),
            commission |-> in.commission, kellyMultiplier |-> in.kellyMultiplier,
            maxLiabilityPct |-> in.maxLiabilityPct, minStake |-> in.minStake])
SizingDone(in) == HasCurrent(in) /\ PriceShortened(in) /\ HasLayValue(in)

\* C16: evaluateRunner returns placeLay = true if and only if the price has
\* shortened (anchor non-null, current price < anchor), the model probability is
\* below the market probability and the Kelly fraction of the sizing is > 0.
C16_PlaceLayIff ==
  res # Null =>
    (res.placeLay <=>
       (/\ PriceShortened(arg)
        /\ HasLayValue(arg)
        /\ RGt(SizingOf(arg).kellyFraction, Zero)))

\* C16 witness: the price has shortened, the model probability is below the market
\* probability, the Kelly fraction is positive and evaluateRunner places the lay.
C16_Witness ==
  /\ res # Null
  /\ PriceShortened(arg) /\ HasLayValue(arg)
  /\ RGt(SizingOf(arg).kellyFraction, Zero)
  /\ res.placeLay /\ res.kelly.layStake # Zero

\* C17: kelly, ev and evPctBankroll of a decision are null exactly when no sizing
\* was performed (price not shortened, no lay value, or no current odds) and are
\* non-null whenever sizing was performed, also when placeLay is false because the
\* Kelly fraction is <= 0.
C17_SizingFieldsNullIffNotSized ==
  res # Null =>
    /\ res.kelly = Null <=> ~SizingDone(arg)
    /\ res.ev = Null <=> ~SizingDone(arg)
    /\ res.evPctBankroll = Null <=> ~SizingDone(arg)
    /\ SizingDone(arg) => (res.kelly = SizingOf(arg) /\ res.ev = res.kelly.ev)

\* C17 witness: sizing was performed, the Kelly fraction is 0, placeLay is false
\* and the sizing result is attached with ev 0.
C17_Witness ==
  /\ res # Null
  /\ SizingDone(arg)
  /\ ~res.placeLay
  /\ res.kelly # Null /\ res.kelly.kellyFraction = Zero
  /\ res.ev = Zero

\* a runner of some dashboard that has source prices but no Betfair Exchange price
NoExecutionPrice(r) == r.betfairOdds = Null /\ r.averageOdds # Null

\* C18 as stated: a runner without a Betfair Exchange price but with other source
\* prices has its compression and its sizing computed from the consensus price.
C18_ConsensusWhenNoExecution ==
  \A c \in Clients :
    \A k \in DOMAIN races[c] :
      NoExecutionPrice(races[c][k]) =>
        /\ races[c][k].compressionPercent
             = priceCompression(races[c][k].openingAverageOdds,
                                races[c][k].averageOdds)
        /\ races[c][k].layDecision.pMarket
             = marketImpliedProb(races[c][k].averageOdds)

\* C18 amended: a runner without a Betfair Exchange price has null compression,
\* signal none and the null decision 'No current odds available', whatever its
\* other source prices are.
C18_NoExecutionPriceNoSignal ==
  \A c \in Clients :
    \A k \in DOMAIN races[c] :
      races[c][k].betfairOdds = Null =>
        /\ races[c][k].compressionPercent = Null
        /\ races[c][k].valueSignal = "none"
        /\ races[c][k].layDecision = nullDecision(<<"No current odds available">>)

\* C18 witness: a dashboard shows a runner with a persisted anchor and a consensus
\* price but no Betfair Exchange price.
C18_Witness ==
  \E c \in Clients :
    \E k \in DOMAIN races[c] :
      /\ NoExecutionPrice(races[c][k])
      /\ races[c][k].hasDbOpening
      /\ races[c][k].compressionPercent = Null

\* the batch client c fetched supplies a positive price of runner k
Usable(c, k) ==
  \E o \in SeqRange(events[c]) : KeyOf(o.event_id, o.name) = k /\ o.price > 0

\* C19: a batch in which all prices of a runner are non-positive adds no row of that
\* runner, no row with a non-positive price is ever added, an anchor appears only
\* in a step that inserts a batch with a usable price of the runner, and every
\* such inserted batch leaves the runner anchored.
C19_PlaceholderNeverAnchors ==
  [][/\ \A c \in Clients :
          InsertStep(c) =>
            \A k \in AllKeys :
              /\ ~Usable(c, k) => \A i \in NewRows : RowKey(db'[i]) # k
              /\ Usable(c, k) => k \in DOMAIN openingOddsMap(db')
     /\ SubSeq(db', 1, Len(db)) = db
     /\ \A i \in NewRows : db'[i].back_price > 0
     /\ Len(db') > Len(db) =>
          \A k \in DOMAIN openingOddsMap(db') \ DOMAIN openingOddsMap(db) :
            \E c \in Clients : InsertStep(c) /\ Usable(c, k)]_vars

\* C19 witness: a batch was recorded without a row of runner r1 (its only price was
\* the placeholder 0), and a later batch gave r1 its opening row.
C19_Witness ==
  \E i, j \in 1..Len(db) :
    /\ i < j
    /\ db[i].snapshot_time < db[j].snapshot_time
    /\ RowKey(db[j]) = KeyOf(EventId, "r1") /\ db[j].is_opening
    /\ \A h \in 1..(j - 1) : RowKey(db[h]) # KeyOf(EventId, "r1")
    /\ KeyOf(EventId, "r1") \in DOMAIN openingOddsMap(db)

RECURSIVE ValidOnly(_)
ValidOnly(ps) ==
  IF ps = <<>> THEN <<>>
  ELSE (IF Head(ps) > 100 THEN <<Head(ps)>> ELSE <<>>) \o ValidOnly(Tail(ps))

\* C20: every price <= 1 is treated as invalid: no opening row carries one, the
\* anchor and the current consensus are means of the prices above 1 only, and a
\* runner whose prices are all <= 1 has no data in that cycle.
C20_PricesUpToOneInvalid ==
  /\ \A i \in 1..Len(db) : db[i].is_opening => db[i].back_price > 100
  /\ \A c \in Clients :
       \A k \in DOMAIN races[c] :
         LET valid == ValidOnly(races[c][k].bookmakerOdds)
         IN  /\ races[c][k].averageOdds
                  = IF valid = <<>> THEN Null ELSE Average(valid)
             /\ valid = <<>> =>
                  /\ races[c][k].compressionPercent = Null
                  /\ races[c][k].openingAverageOdds = Null

\* C21: in every bet result of kellyLay (stake > 0), on the unrounded values, the
\* liability is stake * (odds - 1), the loss if the horse wins is the liability after
\* the cap, and the profit if it loses is stake * (1 - commission).
C21_PayoffIdentities ==
  (res # Null /\ res.raw.bet /\ RGt(res.raw.stake, Zero)) =>
    /\ res.raw.liab = RMul(res.raw.stake, RSub(arg.layOdds, One))
    /\ res.raw.loss = res.raw.liab
    /\ res.raw.profit = RMul(res.raw.stake, RSub(One, arg.commission))
    /\ res.out.lossIfWins = res.out.liability

\* C21 witness: kellyLay has sized a bet that the max-liability cap cut down, with a
\* commission, and its loss is the capped liability.
C21_Witness ==
  /\ res # Null
  /\ res.raw.bet /\ RGt(res.raw.stake, Zero)
  /\ res.raw.cappedByMaxLiability
  /\ RGt(arg.commission, Zero)
  /\ res.raw.loss = res.raw.maxLiab

\* the unrounded sizing of the runner
SizingRawOf(in) ==
  kellyLayRaw([bankroll |-> in.bankroll, layOdds |-> in.currentOdds,
               pWin |-> modelProbability(IF in.averageOdds # Null THEN in.averageOdds
                                         ELSE in.currentOdds, in.modelParams),
               commission |-> in.commission, kellyMultiplier |-> in.kellyMultiplier,
               maxLiabilityPct |-> in.maxLiabilityPct, minStake |-> in.minStake])

\* stake, liability and expected value of the two sizings are the same
SameBet(k1, k2) ==
  /\ k1.layStake = k2.layStake
  /\ k1.liability = k2.liability
  /\ k1.ev = k2.ev

FStarOf(in) == SizingRawOf(in).kellyFraction

\* C23: rounding is display-only: the 'kelly fraction <= 0' test of evaluateRunner
\* has the outcome of the same test on the unrounded f* (so a positive f* that rounds
\* to 0.0000 still gives placeLay = true), and the ev reported is the rounding of the
\* ev computed from the unrounded stake and liability.
C23_RoundingDisplayOnly ==
  (res # Null /\ SizingDone(arg)) =>
    /\ res.placeLay <=> RGt(FStarOf(arg), Zero)
    /\ res.ev = round2(EvFromStake([pWin |-> res.pModel, layOdds |-> arg.currentOdds,
                                    commission |-> arg.commission],
                                   SizingRawOf(arg).stake))

\* C24: for every runner transformEvents produces, the compression is > 0 if and
\* only if the lay decision's priceShortened is true, so a runner with a signal
\* other than none has priceShortened = true.
C24_CompressionIffShortened ==
  \A c \in Clients :
    \A k \in DOMAIN races[c] :
      /\ (races[c][k].compressionPercent # Null
          /\ RGt(races[c][k].compressionPercent, Zero))
           <=> races[c][k].layDecision.priceShortened
      /\ races[c][k].valueSignal # "none" => races[c][k].layDecision.priceShortened

\* the full Kelly fraction of the calculator's inputs
CalcFraction ==
  kellyLayStakeFraction([trueProb |-> impliedProbability(arg.initialOdds),
                         currentLayOdds |-> arg.layOdds])

\* C25: the calculator's kellyLayStake applies the Kelly fraction to liability:
\* when the fraction is positive and the cap does not bind, liability is
\* f * kelly_multiplier * bankroll and the lay stake is liability / (lay_odds - 1).
C25_CalculatorFractionOfLiability ==
  (res # Null /\ RGt(arg.layOdds, One) /\ RGt(CalcFraction, Zero)
     /\ ~res.cappedByMaxLiability) =>
    /\ res.liability = round2(RMul(RMul(CalcFraction, arg.multiplier), arg.bankroll))
    /\ res.layStake = round2(RDiv(RMul(RMul(CalcFraction, arg.multiplier),
                                       arg.bankroll),
                                  RSub(arg.layOdds, One)))

\* C26: whenever evaluateRunner returns placeLay = true the sizing attached is a
\* bet: kelly.layStake > 0 and kelly.liability > 0, for every bankroll, Kelly
\* multiplier and max-liability percentage >= 0, the value 0 included.
C26_PlaceLayHasStake ==
  (res # Null /\ res.placeLay) =>
    /\ res.kelly # Null
    /\ RGt(res.kelly.layStake, Zero)
    /\ RGt(res.kelly.liability, Zero)

\* C27: for lay odds > 1 and 0 <= commission < 1 the full Kelly fraction f* of
\* kellyLay is > 0 if and only if p_win < breakEvenProb(lay_odds, commission)
\* = (1 - commission) / (lay_odds - commission); with commission > 0 that threshold
\* is strictly below 1 / lay_odds.
C27_PositiveIffBelowBreakEven ==
  (res # Null /\ RGt(arg.layOdds, One)) =>
    /\ RGt(res.raw.kellyFraction, Zero)
         <=> RLt(arg.pWin, breakEvenProb(arg.layOdds, arg.commission))
    /\ breakEvenProb(arg.layOdds, arg.commission)
         = RDiv(RSub(One, arg.commission), RSub(arg.layOdds, arg.commission))
    /\ RGt(arg.commission, Zero) =>
         RLt(breakEvenProb(arg.layOdds, arg.commission),
             marketImpliedProb(arg.layOdds))
    /\ arg.commission = Zero =>
         breakEvenProb(arg.layOdds, arg.commission) = marketImpliedProb(arg.layOdds)

\* C27 witness: kellyLay has run on a probability below the market-implied
\* 1 / lay_odds and not below the break-even probability, with a commission: there
\* is lay value and no bet.
C27_Witness ==
  /\ res # Null
  /\ RGt(arg.layOdds, One) /\ RGt(arg.commission, Zero)
  /\ RLt(arg.pWin, marketImpliedProb(arg.layOdds))
  /\ RGe(arg.pWin, breakEvenProb(arg.layOdds, arg.commission))
  /\ RLe(res.raw.kellyFraction, Zero)
  /\ ~res.raw.bet

\* C28: kellyLay never recommends a negative-EV bet: whenever the returned stake is
\* > 0 the unrounded ev is > 0 and equals stake * (1 - commission) * f*, and ev is 0
\* in every no-bet result, whether the multiplier, the leverage limit or the
\* max-liability ceiling sized the bet.
C28_NeverNegativeEv ==
  res # Null =>
    /\ RGt(res.out.layStake, Zero) =>
         /\ RGt(res.raw.ev, Zero)
         /\ res.raw.ev = RMul(RMul(res.raw.stake, RSub(One, arg.commission)),
                              res.raw.kellyFraction)
         /\ RGe(res.out.ev, Zero)
    /\ NoEdge(arg) => (res.raw.ev = Zero /\ res.out.ev = Zero)
    /\ RGt(res.raw.stake, Zero) => RGt(res.raw.ev, Zero)

\* C28 witness: kellyLay has returned a positive stake cut down by the max-liability
\* ceiling at odds above 2, where the loss is larger than the profit, and the
\* expected value is positive.
C28_Witness ==
  /\ res # Null
  /\ RGt(res.out.layStake, Zero)
  /\ res.raw.cappedByMaxLiability
  /\ RGt(arg.layOdds, Int2R(2))
  /\ RGt(res.raw.loss, res.raw.profit)
  /\ RGt(res.raw.ev, Zero)

ReadStep(c) == pc[c] = "fetch_opening" /\ pc'[c] = "idle"

\* the runners of the batch that have a valid price
PricedKeys(evs) ==
  {KeyOf(o.event_id, o.name) : o \in {x \in SeqRange(evs) : IsRealOutcome(x)}}

====
